---- MODULE Spec2Model ----
(***************************************************************************)
(* A model of resolver.py, an iterative DNS resolver.                      *)
(*                                                                         *)
(* Python values are represented as follows.                               *)
(*   bytes  : a sequence of numbers 0..255 (Python index i is TLA+ index   *)
(*            i+1)                                                         *)
(*   str    : a sequence of code points ('.' is 46, ' ' is 32);            *)
(*            encode() and decode() are the UTF-8 conversions              *)
(*   a call that may raise : a record with a field ok; ok = FALSE stands   *)
(*            for the exception leaving the function                       *)
(***************************************************************************)
EXTENDS Integers, Sequences, FiniteSets, TLC

(***************************************************************************)
(* Bounds of the model.                                                    *)
(***************************************************************************)
\* Largest hop depth (find's count) at which a response may still cause
\* another query.
MaxDepth == 3
\* Number of lines of root-servers.txt.
MaxRoots == 2
\* The largest number of pointers followed one after the other in the
\* buffers given to networkToString.
MaxPointerDepth == 4
\* the largest number of labels of a name given to stringToNetwork
MaxLabels == 4

(***************************************************************************)
(* String literals of the program and of the modelled inputs.              *)
(***************************************************************************)
\* 'Invalid TLD'
MSG_TLD == <<73, 110, 118, 97, 108, 105, 100, 32, 84, 76, 68>>
\* 'Invalid domain'
MSG_DOMAIN == <<73, 110, 118, 97, 108, 105, 100, 32, 100, 111, 109, 97, 105, 110>>
\* 'Subdomain could not be resolved, SOA'
MSG_SUB == <<83, 117, 98, 100, 111, 109, 97, 105, 110, 32, 99, 111, 117, 108, 100, 32, 110, 111, 116, 32, 98, 101, 32, 114, 101, 115, 111, 108, 118, 101, 100, 44, 32, 83, 79, 65>>
\* "-m"
DashM == <<45, 109>>
\* "resolver.py"
Prog == <<114, 101, 115, 111, 108, 118, 101, 114, 46, 112, 121>>
\* "www.ex"
www_ex == <<119, 119, 119, 46, 101, 120>>
\* "web.ex"
web_ex == <<119, 101, 98, 46, 101, 120>>
\* "ns1.ex"
ns1_ex == <<110, 115, 49, 46, 101, 120>>
\* "ns2.ex"
ns2_ex == <<110, 115, 50, 46, 101, 120>>
\* "198.41.0.4", "199.9.14.201", "192.33.4.12", "199.7.91.13"
AllRoots == << <<49, 57, 56, 46, 52, 49, 46, 48, 46, 52>>,
               <<49, 57, 57, 46, 57, 46, 49, 52, 46, 50, 48, 49>>,
               <<49, 57, 50, 46, 51, 51, 46, 52, 46, 49, 50>>,
               <<49, 57, 57, 46, 55, 46, 57, 49, 46, 49, 51>> >>

(***************************************************************************)
(* Python primitives.                                                      *)
(***************************************************************************)
\* The value a raising call is modelled by.
Raised == [ok |-> FALSE, s |-> <<>>, pos |-> 0]

\* data[lo:hi] for 0 <= lo: a slice is clipped to the data, never an error.
Slice(data, lo, hi) ==
    LET h == IF hi > Len(data) THEN Len(data) ELSE hi
    IN  IF lo >= h THEN <<>> ELSE SubSeq(data, lo + 1, h)

\* s.split(sep) for a one-character separator: the pieces between separators,
\* empty pieces included.
\* The position of the first separator at or after i, Len(s) + 1 if none.
NextSep(s, sep, i) ==
    IF \E j \in i..Len(s) : s[j] = sep
    THEN CHOOSE j \in i..Len(s) :
             s[j] = sep /\ \A k \in i..(j - 1) : s[k] # sep
    ELSE Len(s) + 1

RECURSIVE SplitFrom(_, _, _)
SplitFrom(s, sep, i) ==
    LET j == NextSep(s, sep, i)
    IN  IF j > Len(s) THEN <<SubSeq(s, i, Len(s))>>
        ELSE <<SubSeq(s, i, j - 1)>> \o SplitFrom(s, sep, j + 1)

Split(s, sep) == SplitFrom(s, sep, 1)

\* str(n) for n >= 0, as character codes.
RECURSIVE DecimalStr(_)
DecimalStr(n) ==
    IF n < 10 THEN <<48 + n>> ELSE DecimalStr(n \div 10) \o <<48 + (n % 10)>>

\* hex(n) for n >= 0, as one-character strings: '0', 'x', then the digits
\* without leading zeros.
HexDigit(d) == <<"0", "1", "2", "3", "4", "5", "6", "7", "8", "9",
                 "a", "b", "c", "d", "e", "f">>[d + 1]

RECURSIVE HexDigits(_)
HexDigits(n) ==
    IF n < 16 THEN <<HexDigit(n)>>
    ELSE Append(HexDigits(n \div 16), HexDigit(n % 16))

Hex(n) == <<"0", "x">> \o HexDigits(n)

\* socket.inet_ntoa(ip): dotted decimal of exactly 4 bytes, OSError otherwise.
inet_ntoa(ip) ==
    IF Len(ip) # 4 THEN Raised
    ELSE [ok |-> TRUE,
          s |-> DecimalStr(ip[1]) \o <<46>> \o DecimalStr(ip[2]) \o <<46>>
                \o DecimalStr(ip[3]) \o <<46>> \o DecimalStr(ip[4]),
          pos |-> 0]

(***************************************************************************)
(* str.encode() and bytes.decode(): UTF-8, errors raised.                  *)
(***************************************************************************)
\* The bytes of one code point.
Utf8Char(c) ==
    IF c < 128 THEN <<c>>
    ELSE IF c < 2048 THEN <<192 + (c \div 64), 128 + (c % 64)>>
    ELSE IF c < 65536
    THEN <<224 + (c \div 4096), 128 + ((c \div 64) % 64), 128 + (c % 64)>>
    ELSE <<240 + (c \div 262144), 128 + ((c \div 4096) % 64),
           128 + ((c \div 64) % 64), 128 + (c % 64)>>

\* The bytes of the code points lo..hi of text.
RECURSIVE Utf8Bytes(_, _, _)
Utf8Bytes(text, lo, hi) ==
    IF lo > hi THEN <<>>
    ELSE IF lo = hi THEN Utf8Char(text[lo])
    ELSE Utf8Bytes(text, lo, (lo + hi) \div 2)
         \o Utf8Bytes(text, (lo + hi) \div 2 + 1, hi)

\* text.encode(): UnicodeEncodeError on a surrogate code point.
encode(text) ==
    IF \E i \in 1..Len(text) : text[i] >= 55296 /\ text[i] <= 57343
    THEN Raised
    ELSE [ok |-> TRUE, s |-> Utf8Bytes(text, 1, Len(text)), pos |-> 0]

\* A continuation byte.
IsCont(b) == b >= 128 /\ b <= 191

\* The number of bytes of the sequence a lead byte starts, 0 for a byte
\* that starts none.
SeqLen(b) ==
    IF b < 128 THEN 1
    ELSE IF b >= 194 /\ b <= 223 THEN 2
    ELSE IF b >= 224 /\ b <= 239 THEN 3
    ELSE IF b >= 240 /\ b <= 244 THEN 4
    ELSE 0

\* The sequence that starts at index i is well formed: its continuation
\* bytes are there, it is not overlong, no surrogate, not beyond U+10FFFF,
\* and the byte after it is no continuation byte.
SeqOk(data, i) ==
    LET n == SeqLen(data[i])
    IN  /\ n > 0
        /\ i + n - 1 <= Len(data)
        /\ \A k \in (i + 1)..(i + n - 1) : IsCont(data[k])
        /\ (data[i] = 224 => data[i + 1] >= 160)
        /\ (data[i] = 237 => data[i + 1] <= 159)
        /\ (data[i] = 240 => data[i + 1] >= 144)
        /\ (data[i] = 244 => data[i + 1] <= 143)
        /\ (i + n <= Len(data) => ~IsCont(data[i + n]))

\* The code point of the sequence that starts at index i.
CodePoint(data, i) ==
    LET n == SeqLen(data[i])
    IN  IF n = 1 THEN data[i]
        ELSE IF n = 2 THEN (data[i] - 192) * 64 + (data[i + 1] - 128)
        ELSE IF n = 3
        THEN (data[i] - 224) * 4096 + (data[i + 1] - 128) * 64
             + (data[i + 2] - 128)
        ELSE (data[i] - 240) * 262144 + (data[i + 1] - 128) * 4096
             + (data[i + 2] - 128) * 64 + (data[i + 3] - 128)

\* data.decode() does not raise UnicodeDecodeError.
DecodeOk(data) ==
    /\ (Len(data) > 0 => ~IsCont(data[1]))
    /\ \A i \in 1..Len(data) : IsCont(data[i]) \/ SeqOk(data, i)

\* data.decode() for data that DecodeOk accepts: the code points of the
\* sequences in the order of their lead bytes.
decode(data) ==
    LET leads == {i \in 1..Len(data) : ~IsCont(data[i])}
        nth(k) == CHOOSE i \in leads :
                      Cardinality({j \in leads : j <= i}) = k
    IN  IF leads = 1..Len(data) THEN data
        ELSE [k \in 1..Cardinality(leads) |-> CodePoint(data, nth(k))]

(***************************************************************************)
(* stringToNetwork (lines 24-47).                                          *)
(***************************************************************************)
\* pack("B<n>s", n, item.encode()) with n = len(item), the number of
\* characters: the length byte n, then the first n bytes of the encoding.
\* struct.error when n does not fit a byte.
RECURSIVE PackLabels(_, _)
PackLabels(ls, i) ==
    IF i > Len(ls) THEN [ok |-> TRUE, s |-> <<0>>, pos |-> 0]
    ELSE IF ~encode(ls[i]).ok \/ Len(ls[i]) > 255 THEN Raised
    ELSE LET rest == PackLabels(ls, i + 1)
         IN  IF ~rest.ok THEN Raised
             ELSE [ok |-> TRUE,
                   s |-> <<Len(ls[i])>>
                         \o Slice(encode(ls[i]).s, 0, Len(ls[i]))
                         \o rest.s,
                   pos |-> 0]

stringToNetwork(orig_string) == PackLabels(Split(orig_string, 46), 1)

(***************************************************************************)
(* networkToString (lines 50-91).  The while loop is the recursion on      *)
(* position; the pointer case is the nested call, depth counting the calls *)
(* still allowed.                                                           *)
(***************************************************************************)
\* The offset lines 78-82 compute from the two bytes of a pointer: the sum
\* of the set bits 0..5 of the first byte and of the bits 0..7 of the second.
PointerOffset(length, b2) == (length % 64) + b2

\* toReturn[:-1]
DropLast(s) == IF Len(s) = 0 THEN s ELSE SubSeq(s, 1, Len(s) - 1)

\* The number of nested calls the interpreter allows before it raises
\* RecursionError (the program does not change the limit).
RecursionLimit == 1000

\* active holds the start offsets of the calls of networkToString that have
\* not returned.  A nested call at an offset that is already active repeats
\* its caller and never returns: the interpreter ends it with RecursionError,
\* as it does when RecursionLimit calls are active.
RECURSIVE networkToStringFrom(_, _, _, _)
networkToStringFrom(response, position, toReturn, active) ==
    LET first == Slice(response, position, position + 1)
    IN  IF Len(first) # 1 THEN Raised
        ELSE LET length == first[1]
             IN  IF length = 0
                 THEN [ok |-> TRUE, s |-> DropLast(toReturn), pos |-> position + 1]
                 ELSE IF length >= 192
                 THEN LET second == Slice(response, position + 1, position + 2)
                      IN  IF Len(second) # 1 THEN Raised
                          ELSE IF PointerOffset(length, second[1]) \in active
                                  \/ Cardinality(active) >= RecursionLimit
                          THEN Raised
                          ELSE LET dereferenced ==
                                     networkToStringFrom(response,
                                         PointerOffset(length, second[1]),
                                         <<>>,
                                         active \cup
                                           {PointerOffset(length, second[1])})
                               IN  IF ~dereferenced.ok THEN Raised
                                   ELSE [ok |-> TRUE,
                                         s |-> toReturn \o dereferenced.s,
                                         pos |-> position + 2]
                 ELSE LET label == Slice(response, position + 1,
                                         position + 1 + length)
                      IN  IF Len(label) # length \/ ~DecodeOk(label) THEN Raised
                          ELSE networkToStringFrom(response,
                                   position + 1 + length,
                                   toReturn \o decode(label) \o <<46>>,
                                   active)

networkToString(response, start) ==
    networkToStringFrom(response, start, <<>>, {start})

\* The offset networkToString(response, position) gives its nested call
\* when its loop comes to a pointer (lines 60-83), -1 when it does not.
RECURSIVE DereferencedOffset(_, _)
DereferencedOffset(response, position) ==
    LET first == Slice(response, position, position + 1)
    IN  IF Len(first) # 1 \/ first[1] = 0 THEN -1
        ELSE IF first[1] >= 192
        THEN LET second == Slice(response, position + 1, position + 2)
             IN  IF Len(second) # 1 THEN -1
                 ELSE PointerOffset(first[1], second[1])
        ELSE LET label == Slice(response, position + 1,
                                position + 1 + first[1])
             IN  IF Len(label) # first[1] \/ ~DecodeOk(label) THEN -1
                 ELSE DereferencedOffset(response, position + 1 + first[1])

(***************************************************************************)
(* constructQuery (lines 94-128): the header with the ID, flags 0 and one  *)
(* question, the name, the type (15 for MX, 1 for A) and class 1.          *)
(***************************************************************************)
constructQuery(ID, hostname, mx) ==
    LET qname == stringToNetwork(hostname)
    IN  IF ~qname.ok THEN Raised
        ELSE [ok |-> TRUE,
              s |-> <<ID \div 256, ID % 256, 0, 0, 0, 1, 0, 0, 0, 0, 0, 0>>
                    \o qname.s
                    \o <<0, IF mx = TRUE THEN 15 ELSE 1, 0, 1>>,
              pos |-> 0]

(***************************************************************************)
(* The accessors of a response (lines 159-261).                            *)
(***************************************************************************)
\* The value a raising accessor is modelled by.
NoHeader == [ok |-> FALSE, auth |-> "", soa |-> "", ns_count |-> 0]

\* unpack(">6H", response[:12]) needs 12 bytes; hex(flags)[3] and
\* hex(flags)[5] need the text of hex(flags) to have 6 characters.
parseResponse(response) ==
    IF Len(Slice(response, 0, 12)) # 12 THEN NoHeader
    ELSE LET flags == response[3] * 256 + response[4]
             text == Hex(flags)
         IN  IF Len(text) < 6 THEN NoHeader
             ELSE [ok |-> TRUE, auth |-> text[4], soa |-> text[6],
                   ns_count |-> response[9] * 256 + response[10]]

\* The position after the question and after the name of the record that
\* follows it (the first two lines of findType, findCname, findMail and
\* findAnswer).
AfterFirstName(data) ==
    LET q == networkToString(data, 12)
    IN  IF ~q.ok THEN Raised ELSE networkToString(data, q.pos + 4)

\* The last byte of data[start : start + 2], IndexError when that is empty.
findType(data) ==
    LET n == AfterFirstName(data)
    IN  IF ~n.ok THEN [ok |-> FALSE, type |-> 0]
        ELSE LET type == Slice(data, n.pos, n.pos + 2)
             IN  IF Len(type) = 0 THEN [ok |-> FALSE, type |-> 0]
                 ELSE [ok |-> TRUE, type |-> type[Len(type)]]

findCname(data) ==
    LET n == AfterFirstName(data)
    IN  IF ~n.ok THEN Raised ELSE networkToString(data, n.pos + 10)

findMail(data) ==
    LET n == AfterFirstName(data)
    IN  IF ~n.ok THEN Raised ELSE networkToString(data, n.pos + 12)

findAnswer(data, ns_count) ==
    LET n == AfterFirstName(data)
    IN  IF ~n.ok THEN Raised
        ELSE inet_ntoa(Slice(data, n.pos + 10, n.pos + 14))

\* The loop of createNS from its i-th round on; start is the position the
\* round begins at and nsList the names appended so far.
RECURSIVE createNSFrom(_, _, _, _, _)
createNSFrom(data, ns_count, i, start, nsList) ==
    IF i >= ns_count THEN [ok |-> TRUE, nsList |-> nsList]
    ELSE LET owner == networkToString(data, start)
         IN  IF ~owner.ok THEN [ok |-> FALSE, nsList |-> <<>>]
             ELSE LET target == networkToString(data, owner.pos + 10)
                  IN  IF ~target.ok THEN [ok |-> FALSE, nsList |-> <<>>]
                      ELSE createNSFrom(data, ns_count, i + 1, target.pos,
                                        Append(nsList, target.s))

createNS(data, ns_count) ==
    LET q == networkToString(data, 12)
    IN  IF ~q.ok THEN [ok |-> FALSE, nsList |-> <<>>]
        ELSE createNSFrom(data, ns_count, 0, q.pos + 4, <<>>)

(***************************************************************************)
(* find after sendToServer has returned a response (lines 282-302).  One   *)
(* call of find ends in one of four ways.                                  *)
(***************************************************************************)
\* return <a string>
Return(val) ==
    [kind |-> "return", val |-> val, server |-> <<>>, hostname |-> <<>>,
     mx |-> FALSE, root |-> <<>>, count |-> 0]

\* return find(server, hostname, mx, root, count)
Call(server, hostname, mx, root, count) ==
    [kind |-> "call", val |-> <<>>, server |-> server, hostname |-> hostname,
     mx |-> mx, root |-> root, count |-> count]

\* falling off the end of find: the call returns None
ReturnNone ==
    [kind |-> "none", val |-> <<>>, server |-> <<>>, hostname |-> <<>>,
     mx |-> FALSE, root |-> <<>>, count |-> 0]

\* an exception leaves find
Raise ==
    [kind |-> "raise", val |-> <<>>, server |-> <<>>, hostname |-> <<>>,
     mx |-> FALSE, root |-> <<>>, count |-> 0]

\* NameError with the depths compared one too high.
NameErrorShifted(count) ==
    IF count <= 1 THEN MSG_TLD
    ELSE IF count = 2 THEN MSG_DOMAIN
    ELSE MSG_SUB

\* lines 285-290
NameError(count) ==
    IF count = 0 THEN MSG_TLD
    ELSE IF count = 1 THEN MSG_DOMAIN
    ELSE MSG_SUB

\* line 284
IsNameError(soa, type) == soa = "3" \/ type = 6

\* line 291
IsCname(type) == type = 5

\* line 294
IsAuth(auth) == auth = "4"

\* lines 292-293.  Like the other branches the operator is given the
\* variables find holds at that point.
FollowCname(response, server, hostname, mx, root, count) ==
    LET cname == findCname(response)
    IN  IF ~cname.ok THEN Raise
        ELSE Call(root, cname.s, mx, root, count + 1)

\* lines 295-298
Authoritative(response, server, hostname, mx, root, count) ==
    IF mx = TRUE
    THEN LET mailexchange == findMail(response)
         IN  IF ~mailexchange.ok THEN Raise
             ELSE Call(root, mailexchange.s, FALSE, root, count + 1)
    ELSE LET ip == findAnswer(response, 1)
         IN  IF ~ip.ok THEN Raise ELSE Return(ip.s)

\* lines 300-302: the loop returns in its first round
Referral(response, ns_count, hostname, mx, root, count) ==
    LET ns == createNS(response, ns_count)
    IN  IF ~ns.ok THEN Raise
        ELSE IF Len(ns.nsList) = 0 THEN ReturnNone
        ELSE Call(ns.nsList[1], hostname, mx, root, count + 1)

find(response, server, hostname, mx, root, count) ==
    LET header == parseResponse(response)
    IN  IF ~header.ok THEN Raise
        ELSE LET type == findType(response)
             IN  IF ~type.ok THEN Raise
                 ELSE IF IsNameError(header.soa, type.type)
                 THEN Return(NameError(count))
                 ELSE IF IsCname(type.type)
                 THEN FollowCname(response, server, hostname, mx, root, count)
                 ELSE IF IsAuth(header.auth)
                 THEN Authoritative(response, server, hostname, mx, root, count)
                 ELSE Referral(response, header.ns_count, hostname, mx,
                               root, count)

(***************************************************************************)
(* main (lines 307-338).                                                   *)
(***************************************************************************)
\* networkToList('root-servers.txt'): the configured root servers, in file
\* order.
RootServers == SubSeq(AllRoots, 1, MaxRoots)

\* lines 311-321: the flag and the hostname main goes on with; usage tells
\* that the usage text was printed.
ParseArgs(args) ==
    IF Len(args) < 2 \/ (Len(args) = 3 /\ args[2] # DashM) \/ Len(args) > 3
    THEN [usage |-> TRUE, mx |-> FALSE, hostname |-> <<>>]
    ELSE IF Len(args) = 3
    THEN [usage |-> FALSE, mx |-> TRUE, hostname |-> args[3]]
    ELSE [usage |-> FALSE, mx |-> FALSE, hostname |-> args[2]]

\* lines 327-328: the frame of the call find(server, hostname, mx, server, 0)
FirstFrame(rootServer, name, flag) ==
    [server |-> rootServer, hostname |-> name, mx |-> flag,
     root |-> rootServer, count |-> 0]

\* len(val.split(' '))
Words(val) == Len(Split(val, 32))

\* lines 330-335: the line main prints for a string find returned.
\*   "mail"  : "The mail exchange for <hostname> resolves to: <val>"
\*   "name"  : "The name <hostname> resolves to: <val>"
\*   "plain" : val itself
Report(flag, val) ==
    IF flag = TRUE /\ Words(val) <= 2 THEN [kind |-> "mail", text |-> val]
    ELSE IF Words(val) <= 2 THEN [kind |-> "name", text |-> val]
    ELSE [kind |-> "plain", text |-> val]

\* line 338: "Hostname could not be resolved using <server>"
Unresolved(rootServer) == [kind |-> "unresolved", text |-> rootServer]

\* lines 315-316: the usage text
Usage == [kind |-> "usage", text |-> <<>>]

\* AfterPrint without the break: the loop goes on to the next root server.
AfterPrintNoBreak(i) == [continue |-> i < Len(RootServers), next |-> i + 1]

\* AfterExcept giving up after the first failed attempt.
AfterExceptGiveUp(i) == [continue |-> FALSE, next |-> i]

\* line 336: after the print the loop is left.  The result tells whether the
\* loop goes on, and with which entry of the list.
AfterPrint(i) == [continue |-> FALSE, next |-> i]

\* lines 325, 337-338: after the except clause the for loop takes the next
\* entry of the list, if there is one.
AfterExcept(i) == [continue |-> i < Len(RootServers), next |-> i + 1]

(***************************************************************************)
(* The servers: the responses a query may receive.  A response repeats the *)
(* question and carries answer and authority records; every record names   *)
(* its owner by a pointer to the question name at offset 12.               *)
(***************************************************************************)
\* Header flags of the modelled responses.
\*   32768 = 0x8000  response
\*   33792 = 0x8400  response, authoritative answer
\*   34304 = 0x8600  response, authoritative answer, truncated
\*   33795 = 0x8403  response, authoritative answer, rcode 3
\*   32771 = 0x8003  response, rcode 3
\*   33152 = 0x8180  response, recursion desired and available
\*   1024  = 0x0400  authoritative answer bit in a message that is no response
FlagValues == {32768, 33792, 34304, 33795, 32771, 33152, 1024}

\* The records a section may hold.
AnswerLists ==
    { <<>>, <<"A">>, <<"CNAME">>, <<"CNAME", "A">>, <<"A", "CNAME">>, <<"MX">> }
AuthorityLists == { <<>>, <<"NS1">>, <<"NS1", "NS2">>, <<"NS2", "NS1">>, <<"SOA">> }

RecordType(rr) ==
    CASE rr = "A" -> 1
      [] rr = "NS1" -> 2
      [] rr = "NS2" -> 2
      [] rr = "CNAME" -> 5
      [] rr = "SOA" -> 6
      [] rr = "MX" -> 15

\* The data of a record.  The MX target is "mx" followed by a pointer to the
\* question name; the SOA names are pointers to the question name.
RecordData(rr) ==
    CASE rr = "A" -> <<93, 184, 216, 34>>
      [] rr = "NS1" -> <<3, 110, 115, 49, 2, 101, 120, 0>>
      [] rr = "NS2" -> <<3, 110, 115, 50, 2, 101, 120, 0>>
      [] rr = "CNAME" -> <<3, 119, 101, 98, 2, 101, 120, 0>>
      [] rr = "SOA" -> <<192, 12, 192, 12, 0, 0, 0, 1, 0, 0, 14, 16,
                          0, 0, 2, 88, 0, 1, 81, 128, 0, 0, 0, 60>>
      [] rr = "MX" -> <<0, 10, 2, 109, 120, 192, 12>>

\* The wire form of a name as a server writes it: the labels, then the root.
RECURSIVE WireLabels(_, _)
WireLabels(ls, i) ==
    IF i > Len(ls) THEN <<0>>
    ELSE IF Len(ls[i]) = 0 THEN WireLabels(ls, i + 1)
    ELSE <<Len(ls[i])>> \o ls[i] \o WireLabels(ls, i + 1)

WireName(name) == WireLabels(Split(name, 46), 1)

\* name (pointer), type, class, ttl, data length, data
WireRecord(rr) ==
    <<192, 12, 0, RecordType(rr), 0, 1, 0, 0, 0, 60, 0, Len(RecordData(rr))>>
    \o RecordData(rr)

RECURSIVE WireRecords(_)
WireRecords(rrs) ==
    IF Len(rrs) = 0 THEN <<>> ELSE WireRecord(Head(rrs)) \o WireRecords(Tail(rrs))

WireResponse(name, flag, flags, answers, authority) ==
    <<0, 1, flags \div 256, flags % 256, 0, 1, 0, Len(answers),
      0, Len(authority), 0, 0>>
    \o WireName(name) \o <<0, IF flag THEN 15 ELSE 1, 0, 1>>
    \o WireRecords(answers) \o WireRecords(authority)

\* A datagram cut short.
CutLengths == {5, 12, 30}

\* The datagrams a query for name may receive.
Responses(name, flag) ==
    { WireResponse(name, flag, f, an, ns) :
        f \in FlagValues, an \in AnswerLists, ns \in AuthorityLists }
    \cup
    { Slice(WireResponse(name, flag, f, <<"A">>, <<"NS1">>), 0, n) :
        f \in {32768, 33792}, n \in CutLengths }

\* The names a direct call of stringToNetwork is given: up to MaxLabels
\* labels joined by dots, and one label of 256 characters.  The labels are
\* ASCII ones of 0, 1, 2, 61, 63 and 64 characters, and two with a
\* character that UTF-8 writes in more than one byte (U+00E9, and U+20AC
\* followed by "uro").
Label(n, c) == [i \in 1..n |-> c]

CodecLabels ==
    { <<>>, <<97>>, <<98, 99>>, Label(61, 120), Label(63, 121), Label(64, 122),
      <<233>>, <<8364, 117, 114, 111>> }

RECURSIVE Join(_)
Join(ls) ==
    IF Len(ls) = 0 THEN <<>>
    ELSE IF Len(ls) = 1 THEN ls[1]
    ELSE ls[1] \o <<46>> \o Join(Tail(ls))

CodecNames ==
    { Join(ls) : ls \in UNION { [1..n -> CodecLabels] : n \in 1..MaxLabels } }
    \cup { Label(256, 97) }

\* The buffers a direct call of networkToString is given.  Pad(t) is t zero
\* bytes; PointerTo(t) is the two bytes of a compression pointer to offset t.
Pad(n) == [i \in 1..n |-> 0]

PointerTo(t) == <<192 + (t \div 256), t % 256>>

PadLengths == {0, 12, 255, 256, 300}

\* literal labels in wire form: none, "ns1", "a.bc", the two bytes of
\* U+00E9, and a byte that is not UTF-8
LiteralLabels ==
    { <<>>, <<3, 110, 115, 49>>, <<1, 97, 2, 98, 99>>, <<2, 195, 169>>,
      <<1, 200>> }

\* k names "n" followed by a pointer, after the name "ex" at offset t: the
\* first points to "ex", each next one to the one before it.
RECURSIVE Chain(_, _)
Chain(t, k) ==
    IF k = 0 THEN <<>>
    ELSE Chain(t, k - 1) \o <<1, 110>> \o PointerTo(t + 4 * (k - 1))

\* "ex" at offset t, a chain of k names, then the name to decode: the
\* literal labels and a pointer to the last name of the chain.
CompressedName(t, k, lits) ==
    [buf |-> Pad(t) \o <<2, 101, 120, 0>> \o Chain(t, k) \o lits
             \o PointerTo(t + 4 * k),
     start |-> t + 4 + 4 * k]

\* the literal labels and a pointer to the name "ex" that follows it
ForwardName(t, lits) ==
    [buf |-> Pad(t) \o lits \o PointerTo(t + Len(lits) + 2)
             \o <<2, 101, 120, 0>>,
     start |-> t]

\* the literal labels and a pointer to itself
SelfName(t, lits) ==
    [buf |-> Pad(t) \o lits \o PointerTo(t + Len(lits)), start |-> t]

\* two pointers that point to each other
CycleName(t) ==
    [buf |-> Pad(t) \o PointerTo(t + 2) \o PointerTo(t), start |-> t]

\* a label cut short by the end of the buffer
CutName(t) == [buf |-> Pad(t) \o <<5, 97, 98>>, start |-> t]

CodecBuffers ==
    { CompressedName(t, k, lits) :
        t \in PadLengths, k \in 0..(MaxPointerDepth - 1), lits \in LiteralLabels }
    \cup { ForwardName(t, lits) : t \in PadLengths, lits \in LiteralLabels }
    \cup { SelfName(t, lits) : t \in PadLengths, lits \in LiteralLabels }
    \cup { CycleName(t) : t \in PadLengths }
    \cup { CutName(t) : t \in PadLengths }

\* The values random.randint(1, 65535) gives the ID of a query (line 145).
\* Every modelled response carries the ID 1.
QueryIds == {1, 2}

\* The argument lists main is started with.
ArgLists ==
    { <<Prog, www_ex>>, <<Prog, DashM, www_ex>>,
      <<Prog>>, <<Prog, www_ex, DashM>>, <<Prog, DashM, www_ex, www_ex>>,
      <<Prog, Label(256, 97)>> }

(***************************************************************************)
(* The state.                                                              *)
(***************************************************************************)
VARIABLES
    pc,           \* "main": before main runs; "send": find was called and
                  \* is about to send; "wait": the query is sent and recv
                  \* pending; "done": main returned
    argv,         \* the argument list
    mainArgs,     \* main's mx and hostname (the result of ParseArgs)
    networkIdx,   \* position of the for loop in the list of root servers
    frame,        \* the arguments of the running call of find
    caller,       \* the frame of the call of find that ended last
    response,     \* the datagram sock.recv returned to that call
    val,          \* what the last finished attempt gave main
    output,       \* the lines main has printed
    event,        \* the last step taken
    query,        \* the last query sendToServer built
    openSockets,  \* the number of sockets created and not closed
    codec         \* a direct call of stringToNetwork and networkToString:
                  \* the arguments and what the calls returned

vars == <<pc, argv, mainArgs, networkIdx, frame, caller, response, val,
          output, event, query, openSockets, codec>>

\* No direct call of the two functions is made.
Idle == [stage |-> "idle", input |-> "none", name |-> <<>>, buf |-> <<>>,
         start |-> 0, out |-> Raised, deref |-> -1]

NoFrame == [server |-> <<>>, hostname |-> <<>>, mx |-> FALSE, root |-> <<>>,
            count |-> 0]

\* What an attempt gave main: nothing yet, a string, None, or an exception.
NoValue == [kind |-> "unset", s |-> <<>>]
StrValue(s) == [kind |-> "str", s |-> s]
NoneValue == [kind |-> "None", s |-> <<>>]
Exception == [kind |-> "exception", s |-> <<>>]

Init ==
    /\ pc = "main"
    /\ argv \in ArgLists
    /\ mainArgs = [usage |-> FALSE, mx |-> FALSE, hostname |-> <<>>]
    /\ networkIdx = 0
    /\ frame = NoFrame
    /\ caller = NoFrame
    /\ response = <<>>
    /\ val = NoValue
    /\ output = <<>>
    /\ event = "init"
    /\ query = <<>>
    /\ openSockets = 0
    /\ codec = Idle

\* main up to the first call of find (lines 308-328).
Main ==
    /\ pc = "main"
    /\ LET parsed == ParseArgs(argv)
       IN  /\ mainArgs' = parsed
           /\ output' = IF parsed.usage THEN <<Usage>> ELSE <<>>
           /\ IF Len(RootServers) = 0
              THEN /\ pc' = "done"
                   /\ UNCHANGED <<networkIdx, frame>>
              ELSE /\ pc' = "send"
                   /\ networkIdx' = 1
                   /\ frame' = FirstFrame(RootServers[1], parsed.hostname,
                                          parsed.mx)
    /\ event' = "main"
    /\ UNCHANGED <<argv, caller, response, val, query, openSockets, codec>>

\* find prints "Querying ..." and sendToServer creates a socket, builds the
\* query with a random ID and sends it (lines 279-280, 142-151).  The new
\* call of find has no response yet.
Send ==
    /\ pc = "send"
    /\ \E random_id \in QueryIds :
         /\ constructQuery(random_id, frame.hostname, frame.mx).ok
         /\ query' = constructQuery(random_id, frame.hostname, frame.mx).s
    /\ openSockets' = openSockets + 1
    /\ pc' = "wait"
    /\ response' = <<>>
    /\ caller' = NoFrame
    /\ event' = "send"
    /\ UNCHANGED <<argv, mainArgs, networkIdx, frame, val, output, codec>>

\* The rest of main's loop once the attempt on RootServers[networkIdx] has
\* ended with outcome (lines 328-338).  A string is printed and ends the
\* loop; None makes val.split raise, and like every exception ends in the
\* except clause.
Driver(outcome) ==
    IF outcome.kind = "return"
    THEN LET loop == AfterPrint(networkIdx)
         IN  /\ val' = StrValue(outcome.val)
             /\ output' = Append(output, Report(mainArgs.mx, outcome.val))
             /\ IF loop.continue
                THEN /\ pc' = "send"
                     /\ networkIdx' = loop.next
                     /\ frame' = FirstFrame(RootServers[loop.next],
                                            mainArgs.hostname, mainArgs.mx)
                ELSE /\ pc' = "done"
                     /\ UNCHANGED <<networkIdx, frame>>
    ELSE LET loop == AfterExcept(networkIdx)
         IN  /\ val' = IF outcome.kind = "none" THEN NoneValue ELSE Exception
             /\ output' = Append(output, Unresolved(RootServers[networkIdx]))
             /\ IF loop.continue
                THEN /\ pc' = "send"
                     /\ networkIdx' = loop.next
                     /\ frame' = FirstFrame(RootServers[loop.next],
                                            mainArgs.hostname, mainArgs.mx)
                ELSE /\ pc' = "done"
                     /\ UNCHANGED <<networkIdx, frame>>

\* sock.recv returns a datagram and the socket is closed; find acts on the
\* datagram up to its next call of sendToServer or, when the attempt ends,
\* main up to its next call of find (lines 152-154, 282-302, 328-338).
Respond ==
    /\ pc = "wait"
    /\ openSockets' = openSockets - 1
    /\ \E r \in Responses(frame.hostname, frame.mx) :
         \E outcome \in {find(r, frame.server, frame.hostname, frame.mx,
                               frame.root, frame.count)} :
             /\ response' = r
             /\ caller' = frame
             /\ IF outcome.kind = "call"
                THEN /\ outcome.count <= MaxDepth
                     /\ pc' = "send"
                     /\ frame' = [server |-> outcome.server,
                                  hostname |-> outcome.hostname,
                                  mx |-> outcome.mx, root |-> outcome.root,
                                  count |-> outcome.count]
                     /\ UNCHANGED <<networkIdx, val, output>>
                ELSE Driver(outcome)
    /\ event' = "response"
    /\ UNCHANGED <<argv, mainArgs, query, codec>>

\* sock.recv times out: sendToServer prints "Timeout" and returns None
\* without closing the socket, so parseResponse raises on response[:12] and
\* the exception reaches main (lines 156-157, 256, 337-338).
Timeout ==
    /\ pc = "wait"
    /\ caller' = frame
    /\ Driver(Raise)
    /\ event' = "timeout"
    /\ UNCHANGED <<argv, mainArgs, response, query, openSockets, codec>>

\* The socket is created and then constructQuery raises (a label of more
\* than 255 characters), or the query is built and sock.sendto raises (the
\* server name does not resolve, the network is unreachable): sendToServer
\* catches only socket.timeout, so the exception reaches main with the
\* socket left open (lines 142-151, 337-338).
SendError ==
    /\ pc = "send"
    /\ \E random_id \in QueryIds :
         \E built \in {constructQuery(random_id, frame.hostname, frame.mx)} :
             query' = IF built.ok THEN built.s ELSE query
    /\ openSockets' = openSockets + 1
    /\ caller' = frame
    /\ Driver(Raise)
    /\ response' = <<>>
    /\ event' = "senderror"
    /\ UNCHANGED <<argv, mainArgs, codec>>

\* The sockets of the calls of sendToServer that have ended.
LeftOpen == IF pc = "wait" THEN openSockets - 1 ELSE openSockets

\* The program never closes a socket that sendToServer left open (lines
\* 156-157); the interpreter closes it when it reclaims the socket object,
\* at a time the program does not control.
Collect ==
    /\ LeftOpen > 0
    /\ openSockets' = openSockets - 1
    /\ UNCHANGED <<pc, argv, mainArgs, networkIdx, frame, caller, response,
                   val, output, event, query, codec>>

Next == Main \/ Send \/ Respond \/ Timeout \/ SendError \/ Collect

Spec == Init /\ [][Next]_vars

(***************************************************************************)
(* The two functions of the name codec called directly: stringToNetwork    *)
(* on a name and networkToString on what it returned, or networkToString   *)
(* on a buffer.                                                            *)
(***************************************************************************)
CodecInit ==
    /\ pc = "main"
    /\ argv = <<Prog, www_ex>>
    /\ mainArgs = [usage |-> FALSE, mx |-> FALSE, hostname |-> <<>>]
    /\ networkIdx = 0
    /\ frame = NoFrame
    /\ caller = NoFrame
    /\ response = <<>>
    /\ val = NoValue
    /\ output = <<>>
    /\ event = "init"
    /\ query = <<>>
    /\ openSockets = 0
    /\ codec \in
         { [stage |-> "name", input |-> "name", name |-> n, buf |-> <<>>,
            start |-> 0, out |-> Raised, deref |-> -1] : n \in CodecNames }
         \cup
         { [stage |-> "buffer", input |-> "buffer", name |-> <<>>,
            buf |-> b.buf, start |-> b.start, out |-> Raised, deref |-> -1] :
             b \in CodecBuffers }

\* stringToNetwork(name)
Encode ==
    /\ codec.stage = "name"
    /\ \E wire \in {stringToNetwork(codec.name)} :
         codec' = [codec EXCEPT !.stage = IF wire.ok THEN "encoded" ELSE "failed",
                                !.buf = wire.s, !.out = wire]
    /\ UNCHANGED <<pc, argv, mainArgs, networkIdx, frame, caller, response,
                   val, output, event, query, openSockets>>

\* networkToString(buf, start)
Decode ==
    /\ codec.stage \in {"encoded", "buffer"}
    /\ codec' = [codec EXCEPT !.stage = "decoded",
                              !.out = networkToString(codec.buf, codec.start),
                              !.deref = DereferencedOffset(codec.buf, codec.start)]
    /\ UNCHANGED <<pc, argv, mainArgs, networkIdx, frame, caller, response,
                   val, output, event, query, openSockets>>

CodecNext == Encode \/ Decode

CodecSpec == CodecInit /\ [][CodecNext]_vars

(***************************************************************************)
(* What a datagram holds, read by the wire format itself: the header       *)
(* counts delimit the sections and each record's data length gives the     *)
(* start of the next record.  The properties below speak of responses in   *)
(* these terms, independently of the accessors of the program.             *)
(***************************************************************************)
\* The position after the name that starts at off, -1 if the datagram ends
\* before it does.
RECURSIVE WireNameEnd(_, _)
WireNameEnd(msg, off) ==
    IF off >= Len(msg) THEN -1
    ELSE IF msg[off + 1] = 0 THEN off + 1
    ELSE IF msg[off + 1] >= 192
    THEN (IF off + 2 > Len(msg) THEN -1 ELSE off + 2)
    ELSE WireNameEnd(msg, off + 1 + msg[off + 1])

\* The types of the n records that start at off, and where they end.
RECURSIVE WireSection(_, _, _)
WireSection(msg, off, n) ==
    IF n = 0 THEN [ok |-> TRUE, types |-> <<>>, data |-> <<>>, next |-> off]
    ELSE LET e == WireNameEnd(msg, off)
         IN  IF e < 0 \/ e + 10 > Len(msg)
             THEN [ok |-> FALSE, types |-> <<>>, data |-> <<>>, next |-> 0]
             ELSE LET length == msg[e + 9] * 256 + msg[e + 10]
                      rest == WireSection(msg, e + 10 + length, n - 1)
                  IN  IF e + 10 + length > Len(msg) \/ ~rest.ok
                      THEN [ok |-> FALSE, types |-> <<>>, data |-> <<>>,
                            next |-> 0]
                      ELSE [ok |-> TRUE,
                            types |-> <<msg[e + 1] * 256 + msg[e + 2]>>
                                      \o rest.types,
                            data |-> <<Slice(msg, e + 10, e + 10 + length)>>
                                     \o rest.data,
                            next |-> rest.next]

WireFlags(msg) == msg[3] * 256 + msg[4]

WireAnswers(msg) ==
    WireSection(msg, WireNameEnd(msg, 12) + 4, msg[7] * 256 + msg[8])

WireAuthority(msg) ==
    WireSection(msg, WireAnswers(msg).next, msg[9] * 256 + msg[10])

\* A complete response: the QR bit is set and the question, the answer
\* section and the authority section lie within the datagram.
IsWholeResponse(msg) ==
    /\ Len(msg) >= 12
    /\ WireFlags(msg) >= 32768
    /\ WireNameEnd(msg, 12) >= 0
    /\ WireAnswers(msg).ok
    /\ WireAuthority(msg).ok

HasType(section, type) == \E i \in 1..Len(section.types) : section.types[i] = type

\* the authoritative-answer bit (bit 10 of the flags)
AuthoritativeBit(msg) == (WireFlags(msg) \div 1024) % 2 = 1

\* the response code (the low four bits of the flags)
ResponseCode(msg) == WireFlags(msg) % 16

\* section 4.4, transition 1: an SOA record in the authority section, or the
\* response code no-such-name
SignalsNameError(msg) == HasType(WireAuthority(msg), 6) \/ ResponseCode(msg) = 3

\* section 4.4, transition 2: a CNAME record among the answers
HasCnameAnswer(msg) == HasType(WireAnswers(msg), 5)

\* The three name-error results.
NameErrorMessages == {MSG_TLD, MSG_DOMAIN, MSG_SUB}

\* The step just taken was find acting on a datagram.
Responded == event = "response"

\* The next query: the frame find was called with by the step just taken.
NextQuery(server, name, flag, rootServer, depth) ==
    /\ pc = "send"
    /\ frame = [server |-> server, hostname |-> name, mx |-> flag,
                root |-> rootServer, count |-> depth]

\* The name that starts at off, read by the wire format: literal labels of 1
\* to 63 bytes of UTF-8 text joined by dots, ended by the root label or by a
\* pointer whose 14-bit target (the low six bits of its first byte times
\* 256, plus its second byte) lies strictly before the pointer.
RECURSIVE WireNameText(_, _)
WireNameText(msg, off) ==
    IF off < 0 \/ off >= Len(msg) THEN [ok |-> FALSE, s |-> <<>>]
    ELSE LET b1 == msg[off + 1]
         IN  IF b1 = 0 THEN [ok |-> TRUE, s |-> <<>>]
             ELSE IF b1 >= 192
             THEN (IF off + 2 > Len(msg) THEN [ok |-> FALSE, s |-> <<>>]
                   ELSE LET target == (b1 % 64) * 256 + msg[off + 2]
                        IN  IF target >= off THEN [ok |-> FALSE, s |-> <<>>]
                            ELSE WireNameText(msg, target))
             ELSE IF b1 >= 64 \/ off + 1 + b1 > Len(msg)
                     \/ ~DecodeOk(Slice(msg, off + 1, off + 1 + b1))
             THEN [ok |-> FALSE, s |-> <<>>]
             ELSE LET rest == WireNameText(msg, off + 1 + b1)
                  IN  IF ~rest.ok THEN rest
                      ELSE [ok |-> TRUE,
                            s |-> IF Len(rest.s) = 0
                                  THEN decode(Slice(msg, off + 1, off + 1 + b1))
                                  ELSE decode(Slice(msg, off + 1, off + 1 + b1))
                                       \o <<46>> \o rest.s]

\* Where the data of each of the n records that start at off begins.
RECURSIVE WireDataStarts(_, _, _)
WireDataStarts(msg, off, n) ==
    IF n = 0 THEN <<>>
    ELSE LET e == WireNameEnd(msg, off)
         IN  <<e + 10>>
             \o WireDataStarts(msg, e + 10 + msg[e + 9] * 256 + msg[e + 10],
                               n - 1)

\* The position of the pointer that ends the name starting at off, reached
\* over literal labels of 1 to 63 bytes; -1 if the name has none.
RECURSIVE FirstPointer(_, _)
FirstPointer(msg, off) ==
    IF off < 0 \/ off >= Len(msg) THEN -1
    ELSE IF msg[off + 1] = 0 THEN -1
    ELSE IF msg[off + 1] >= 192
    THEN (IF off + 2 > Len(msg) THEN -1 ELSE off)
    ELSE IF msg[off + 1] >= 64 THEN -1
    ELSE FirstPointer(msg, off + 1 + msg[off + 1])

\* The 14-bit target of the pointer at position p.
PointerTarget(msg, p) == (msg[p + 1] % 64) * 256 + msg[p + 2]

\* The labels of a dotted name, the number of bytes of a label (of its
\* UTF-8 form) and the length of the wire form of the name: a length byte
\* before each label and the root byte, that is two bytes more than the
\* bytes of the name with its dots.
NameLabels(name) == Split(name, 46)

LabelBytes(label) == Len(encode(label).s)

EncodedLength(name) == Len(encode(name).s) + 2

\* No label is longer than 63 bytes and the wire form is at most 255 bytes.
WithinLimits(name) ==
    /\ \A i \in 1..Len(NameLabels(name)) : LabelBytes(NameLabels(name)[i]) <= 63
    /\ EncodedLength(name) <= 255

\* The length bytes of a wire name without pointers.
RECURSIVE LengthBytes(_, _)
LengthBytes(msg, off) ==
    IF off >= Len(msg) \/ msg[off + 1] = 0 THEN {}
    ELSE {msg[off + 1]} \cup LengthBytes(msg, off + 1 + msg[off + 1])

\* the transaction ID (the first two bytes of a message)
TransactionId(msg) == msg[1] * 256 + msg[2]

\* the answer count and the authority count of the header
AnswerCount(msg) == msg[7] * 256 + msg[8]

AuthorityCount(msg) == msg[9] * 256 + msg[10]

\* The authority section holds nameserver records and nothing else.
HoldsNameservers(msg) ==
    /\ IsWholeResponse(msg)
    /\ AuthorityCount(msg) > 0
    /\ \A i \in 1..Len(WireAuthority(msg).types) : WireAuthority(msg).types[i] = 2

\* The names in the data of the authority records, in the order of the
\* records.
AuthorityNames(msg) ==
    LET starts == WireDataStarts(msg, WireAnswers(msg).next, AuthorityCount(msg))
    IN  [i \in 1..Len(starts) |-> WireNameText(msg, starts[i]).s]

\* The name in the data of the first CNAME record of the answer section.
CnameTarget(msg) ==
    LET starts == WireDataStarts(msg, WireNameEnd(msg, 12) + 4, AnswerCount(msg))
        types == WireAnswers(msg).types
        first == CHOOSE i \in 1..Len(types) :
                     types[i] = 5 /\ \A j \in 1..(i - 1) : types[j] # 5
    IN  WireNameText(msg, starts[first]).s

(***************************************************************************)
(* C1.  When find classifies a response as a name error, the result        *)
(* depends only on the depth at which the response arrived: 'Invalid TLD'  *)
(* at depth 0, 'Invalid domain' at depth 1, 'Subdomain could not be        *)
(* resolved, SOA' at every greater depth.  The result is returned to main  *)
(* as a value and no further query is sent.                                *)
(***************************************************************************)
ClassifiedNameError(msg) ==
    /\ parseResponse(msg).ok
    /\ findType(msg).ok
    /\ (parseResponse(msg).soa = "3" \/ findType(msg).type = 6)

C1_NameErrorByDepth ==
    (Responded /\ ClassifiedNameError(response)) =>
        /\ val.kind = "str"
        /\ (caller.count = 0 => val.s = MSG_TLD)
        /\ (caller.count = 1 => val.s = MSG_DOMAIN)
        /\ (caller.count > 1 => val.s = MSG_SUB)
        /\ pc = "done"

\* A name error at depth 3, from a response that carries an SOA record.
C1_Witness ==
    /\ Responded
    /\ ClassifiedNameError(response)
    /\ findType(response).type = 6
    /\ caller.count = 3
    /\ val = StrValue(MSG_SUB)

(***************************************************************************)
(* C2.  Every response whose authority section contains an SOA record or   *)
(* whose response code is 3 ends the hop in a name-error result with no    *)
(* further query, whatever the answer section contains.                    *)
(***************************************************************************)
C2_NameErrorTakesPrecedence ==
    (Responded /\ IsWholeResponse(response) /\ SignalsNameError(response)) =>
        /\ val.kind = "str"
        /\ val.s \in NameErrorMessages
        /\ pc = "done"

(***************************************************************************)
(* C3.  A response with the authoritative-answer bit set that is no name   *)
(* error and carries no CNAME, received for an address query, ends the     *)
(* lookup with the dotted-decimal form of the 4 data bytes of its A        *)
(* record, whatever the other flag bits are.                               *)
(***************************************************************************)
AnswersAddress(msg) ==
    /\ IsWholeResponse(msg)
    /\ AuthoritativeBit(msg)
    /\ ~SignalsNameError(msg)
    /\ ~HasCnameAnswer(msg)
    /\ Len(WireAnswers(msg).types) > 0
    /\ WireAnswers(msg).types[1] = 1
    /\ Len(WireAnswers(msg).data[1]) = 4

C3_AuthoritativeBitAlone ==
    (Responded /\ AnswersAddress(response) /\ ~caller.mx) =>
        /\ val = StrValue(inet_ntoa(WireAnswers(response).data[1]).s)
        /\ pc = "done"

(***************************************************************************)
(* C4.  A response with the authoritative-answer bit set that is no name   *)
(* error and carries no CNAME, received for a mail-exchange query, is      *)
(* followed by an address query for the MX target name, sent to the root   *)
(* server of the attempt at the next depth.                                *)
(***************************************************************************)
AnswersMailExchange(msg) ==
    /\ IsWholeResponse(msg)
    /\ AuthoritativeBit(msg)
    /\ ~SignalsNameError(msg)
    /\ ~HasCnameAnswer(msg)
    /\ Len(WireAnswers(msg).types) > 0
    /\ WireAnswers(msg).types[1] = 15
    /\ findMail(msg).ok

C4_MailExchangeFollowUp ==
    (Responded /\ AnswersMailExchange(response) /\ caller.mx
       /\ caller.count < MaxDepth) =>
        NextQuery(caller.root, findMail(response).s, FALSE, caller.root,
                  caller.count + 1)

(***************************************************************************)
(* C5.  A response that is no name error and has a CNAME among its answers *)
(* is followed by a query for the CNAME target name (the name in the data  *)
(* of the CNAME record), sent to the root server of the attempt and not to *)
(* the server that answered, at the next depth, with the same              *)
(* mail-exchange flag and the same root server.                            *)
(***************************************************************************)
Indirection(msg) ==
    /\ IsWholeResponse(msg)
    /\ ~SignalsNameError(msg)
    /\ HasCnameAnswer(msg)

C5_CnameRestartsAtRoot ==
    (Responded /\ Indirection(response) /\ caller.count < MaxDepth) =>
        NextQuery(caller.root, CnameTarget(response), caller.mx,
                  caller.root, caller.count + 1)

(***************************************************************************)
(* C6.  A referral (no name error, no CNAME, authoritative-answer bit      *)
(* clear) whose nameserver list (the names of the nameserver records of    *)
(* its authority section) is not empty is followed by a query to the       *)
(* first nameserver of the list, for the same name, with the same flag and *)
(* root server, at the next depth; the query goes to no other entry of the *)
(* list.                                                                   *)
(***************************************************************************)
NameserverList(msg) == AuthorityNames(msg)

IsReferral(msg) ==
    /\ IsWholeResponse(msg)
    /\ ~SignalsNameError(msg)
    /\ ~HasCnameAnswer(msg)
    /\ ~AuthoritativeBit(msg)
    /\ HoldsNameservers(msg)

C6_ReferralFirstNameserver ==
    (Responded /\ IsReferral(response) /\ caller.count < MaxDepth) =>
        /\ NextQuery(NameserverList(response)[1], caller.hostname,
                     caller.mx, caller.root, caller.count + 1)
        /\ \A i \in 2..Len(NameserverList(response)) :
               frame.server = NameserverList(response)[i] =>
                   frame.server = NameserverList(response)[1]

(***************************************************************************)
(* C7.  There is a maximum hop depth at which an attempt stops instead of  *)
(* sending another query: within the depths explored, the depth of a       *)
(* query stays below the largest explored depth.                           *)
(***************************************************************************)
C7_HopLimit == (pc \in {"send", "wait"}) => frame.count < MaxDepth

(***************************************************************************)
(* C8.  main tries the root servers in list order, and once an attempt has *)
(* returned a string (an address or a name-error result) main has ended:   *)
(* no query is sent to a later root server.                                *)
(***************************************************************************)
UnresolvedLines ==
    SelectSeq(output, LAMBDA line : line.kind = "unresolved")

C8_FirstResultEndsLoop ==
    /\ (val.kind = "str") => pc = "done"
    /\ (pc \in {"send", "wait"}) =>
           /\ frame.root = RootServers[networkIdx]
           /\ Len(UnresolvedLines) = networkIdx - 1
           /\ \A i \in 1..(networkIdx - 1) :
                  UnresolvedLines[i].text = RootServers[i]

\* The first root server's attempt returned an address although a later root
\* server is configured.
C8_Witness ==
    /\ val.kind = "str"
    /\ val.s \notin NameErrorMessages
    /\ networkIdx = 1
    /\ Len(RootServers) > 1
    /\ pc = "done"

(***************************************************************************)
(* C9.  When a query times out, at whatever depth, the attempt sends no    *)
(* further query and gives main no value; main starts a fresh attempt at   *)
(* the next root server with its own hostname and flag at depth 0, and if  *)
(* there is no next root server the lookup ends with the unresolved line   *)
(* and no resolved value.                                                  *)
(***************************************************************************)
C9_TimeoutMovesToNextRoot ==
    (event = "timeout") =>
        /\ val.kind = "exception"
        /\ Len(output) > 0
        /\ output[Len(output)] = Unresolved(caller.root)
        /\ \A i \in 1..Len(output) : output[i].kind \notin {"mail", "name", "plain"}
        /\ IF caller.root # RootServers[Len(RootServers)]
           THEN /\ NextQuery(RootServers[networkIdx], mainArgs.hostname,
                             mainArgs.mx, RootServers[networkIdx], 0)
                /\ networkIdx > 1
                /\ RootServers[networkIdx - 1] = caller.root
           ELSE pc = "done"

\* A timeout at depth 2 of the first attempt: the second root server is
\* tried from depth 0.
C9_Witness ==
    /\ event = "timeout"
    /\ caller.count = 2
    /\ caller.root = RootServers[1]
    /\ mainArgs.hostname = www_ex
    /\ NextQuery(RootServers[2], www_ex, mainArgs.mx, RootServers[2], 0)

(***************************************************************************)
(* C10.  A name-error result is printed as itself: no line of the output   *)
(* presents it as the address or mail exchange the hostname resolves to.   *)
(***************************************************************************)
C10_NameErrorPrintedPlain ==
    \A i \in 1..Len(output) :
        output[i].kind \in {"mail", "name"} =>
            output[i].text \notin NameErrorMessages

(***************************************************************************)
(* C11.  For every dotted name whose labels are each 1 to 63 bytes long    *)
(* and whose wire form is at most 255 bytes, decoding at offset 0 what     *)
(* stringToNetwork returned gives the name back, and the next offset is    *)
(* the length of the encoding.                                             *)
(***************************************************************************)
C11_RoundTrip ==
    (/\ codec.stage = "decoded"
     /\ codec.input = "name"
     /\ WithinLimits(codec.name)
     /\ \A i \in 1..Len(NameLabels(codec.name)) :
            LabelBytes(NameLabels(codec.name)[i]) >= 1) =>
        codec.out = [ok |-> TRUE, s |-> codec.name, pos |-> Len(codec.buf)]

(***************************************************************************)
(* C12.  For a wire name made of zero or more literal labels followed by a *)
(* pointer to an earlier name of the buffer, networkToString returns the   *)
(* labels joined by dots with the full name at the pointer target, and the *)
(* next offset is two bytes past the start of the pointer, however long    *)
(* the name pointed to and however many pointers it follows in turn.       *)
(***************************************************************************)
EndsInPointerToEarlierName(msg, start) ==
    /\ WireNameText(msg, start).ok
    /\ FirstPointer(msg, start) >= 0
    /\ PointerTarget(msg, FirstPointer(msg, start)) < start
    /\ WireNameText(msg, PointerTarget(msg, FirstPointer(msg, start))).ok
    /\ Len(WireNameText(msg, PointerTarget(msg, FirstPointer(msg, start))).s) > 0

C12_PointerSuffix ==
    (/\ codec.stage = "decoded"
     /\ codec.input = "buffer"
     /\ EndsInPointerToEarlierName(codec.buf, codec.start)) =>
        codec.out = [ok |-> TRUE,
                     s |-> WireNameText(codec.buf, codec.start).s,
                     pos |-> FirstPointer(codec.buf, codec.start) + 2]

(***************************************************************************)
(* C13.  networkToString rejects a name whose pointer has a target that is *)
(* not strictly less than the position of the pointer (a forward pointer,  *)
(* a pointer to itself, a cycle): it follows no pointer loop.              *)
(***************************************************************************)
C13_PointerNotBackwardRejected ==
    (/\ codec.stage = "decoded"
     /\ codec.input = "buffer"
     /\ FirstPointer(codec.buf, codec.start) >= 0
     /\ PointerTarget(codec.buf, FirstPointer(codec.buf, codec.start))
          >= FirstPointer(codec.buf, codec.start)) =>
        ~codec.out.ok

(***************************************************************************)
(* C14.  stringToNetwork fails on a name with a label longer than 63 bytes *)
(* or with a wire form longer than 255 bytes, and what it returns holds no *)
(* length byte of 64 or more.                                              *)
(***************************************************************************)
C14_InvalidNameRejected ==
    (codec.stage \in {"encoded", "failed"}) =>
        /\ (~WithinLimits(codec.name) => ~codec.out.ok)
        /\ (codec.out.ok => \A b \in LengthBytes(codec.out.s, 0) : b < 64)

(***************************************************************************)
(* C15.  find acts on a received datagram only if the transaction ID of    *)
(* the datagram equals the ID of the query sendToServer just sent.         *)
(***************************************************************************)
C15_TransactionIdMatches ==
    (Responded /\ IsWholeResponse(response)) =>
        TransactionId(response) = TransactionId(query)

(***************************************************************************)
(* C16.  Every socket sendToServer opens is closed when sendToServer       *)
(* returns or fails: whenever no query is in flight no socket is open.     *)
(***************************************************************************)
C16_NoSocketLeftOpen == (pc # "wait") => openSockets = 0

(***************************************************************************)
(* C17.  A referral whose authority count is 0, so that the nameserver     *)
(* list is empty, makes the attempt fail: find raises instead of           *)
(* returning, and no further query is sent in the attempt.                 *)
(***************************************************************************)
IsEmptyReferral(msg) ==
    /\ IsWholeResponse(msg)
    /\ ~SignalsNameError(msg)
    /\ ~HasCnameAnswer(msg)
    /\ ~AuthoritativeBit(msg)
    /\ AuthorityCount(msg) = 0
    /\ Len(WireAnswers(msg).types) > 0

C17_EmptyReferralFails ==
    (Responded /\ IsEmptyReferral(response)) =>
        /\ val = Exception
        /\ (pc = "send" => frame.count = 0 /\ frame.root # caller.root)

(***************************************************************************)
(* C18.  The pointer that ends a name is dereferenced at its 14-bit        *)
(* offset: the low six bits of its first byte times 256, plus its second   *)
(* byte, for targets at or beyond offset 256 too.                          *)
(***************************************************************************)
C18_FourteenBitOffset ==
    (/\ codec.stage = "decoded"
     /\ FirstPointer(codec.buf, codec.start) >= 0
     /\ codec.deref >= 0) =>
        codec.deref = PointerTarget(codec.buf, FirstPointer(codec.buf, codec.start))

(***************************************************************************)
(* C19.  For a response whose authority section holds nameserver records,  *)
(* createNS returns as many names as the authority count, in the order of  *)
(* the records, the i-th being the name in the data of the i-th authority  *)
(* record, also when the answer section is not empty.                      *)
(***************************************************************************)
\* find reaches its call of createNS (lines 282-299).
CallsCreateNS(msg) ==
    /\ parseResponse(msg).ok
    /\ findType(msg).ok
    /\ ~IsNameError(parseResponse(msg).soa, findType(msg).type)
    /\ ~IsCname(findType(msg).type)
    /\ ~IsAuth(parseResponse(msg).auth)

C19_NameserversFromAuthority ==
    (Responded /\ HoldsNameservers(response) /\ CallsCreateNS(response)) =>
        /\ createNS(response, parseResponse(response).ns_count).ok
        /\ createNS(response, parseResponse(response).ns_count).nsList
             = AuthorityNames(response)

(***************************************************************************)
(* C20.  Started with an invalid argument list, main reports the usage     *)
(* error and sends no query to any root server.                            *)
(***************************************************************************)
C20_UsageErrorSendsNoQuery ==
    ParseArgs(argv).usage => (pc # "wait" /\ query = <<>>)

====
